---- MODULE Spec2Model ----
(***************************************************************************)
(* Model of the gokv DynamoDB store (package dynamodb): the Client with    *)
(* its operations NewClient, Set, Get, Delete and Close, the JSON codec    *)
(* the client marshals values with, and the table behind the DynamoDB API  *)
(* handle the client is given.                                             *)
(***************************************************************************)
EXTENDS Integers, Sequences, FiniteSets, TLC

(***************************************************************************)
(* Bounds and program constants.                                           *)
(***************************************************************************)

\* Largest integer value a caller stores (two digits, so that the decimal
\* encoding has more than one byte).
MaxInt == 11

\* Options.TTL of the "withttl" case, in seconds (time.Second * 10).
TTLSeconds == 10

keyAttrName == "k"

valAttrName == "v"

\* The attribute the TTL test looks for in the item that was put.
ttlAttrName == "ttl"

(***************************************************************************)
(* Go values handed to Set and pointed to by Get's destination.            *)
(***************************************************************************)

NilValue == [kind |-> "nil", s |-> <<>>, n |-> 0]

StrValue(s) == [kind |-> "string", s |-> s, n |-> 0]

IntValue(n) == [kind |-> "int", s |-> <<>>, n |-> n]

\* A channel: a non-nil value encoding/json cannot represent.
ChanValue == [kind |-> "chan", s |-> <<>>, n |-> 0]

Values ==
    {NilValue, ChanValue, StrValue(<<"x">>), StrValue(<<"y", "z">>), IntValue(MaxInt)}

\* What Get's second argument points to: nothing (nil), a string variable or
\* an int variable.
DestKinds == {"nil", "string", "int"}

\* The zero value the destination variable holds before Get.
ZeroValue(kind) ==
    IF kind = "string" THEN StrValue(<<>>)
    ELSE IF kind = "int" THEN IntValue(0)
    ELSE NilValue

Keys == {"", "a", "b"}

(***************************************************************************)
(* encoding.JSON: Marshal and Unmarshal of the values above.               *)
(***************************************************************************)

Digits == <<"0", "1", "2", "3", "4", "5", "6", "7", "8", "9">>

Quote == "\""

RECURSIVE Itoa(_)
Itoa(n) ==
    IF n < 10 THEN <<Digits[n + 1]>>
    ELSE Itoa(n \div 10) \o <<Digits[(n % 10) + 1]>>

DigitValue(c) == (CHOOSE i \in 1..10 : Digits[i] = c) - 1

IsDigit(c) == \E i \in 1..10 : Digits[i] = c

RECURSIVE Atoi(_)
Atoi(d) ==
    IF Len(d) = 0 THEN 0
    ELSE Atoi(SubSeq(d, 1, Len(d) - 1)) * 10 + DigitValue(d[Len(d)])

JSONNull == <<"n", "u", "l", "l">>

\* json.Marshal: a string in quotes, an int in decimal, nil as null, and an
\* UnsupportedTypeError for a channel.
JSONMarshal(v) ==
    CASE v.kind = "string" -> [err |-> "", data |-> <<Quote>> \o v.s \o <<Quote>>]
      [] v.kind = "int"    -> [err |-> "", data |-> Itoa(v.n)]
      [] v.kind = "nil"    -> [err |-> "", data |-> JSONNull]
      [] OTHER             -> [err |-> "json: unsupported type", data |-> <<>>]

IsJSONString(data) ==
    /\ Len(data) >= 2
    /\ data[1] = Quote
    /\ data[Len(data)] = Quote
    /\ \A i \in 2..(Len(data) - 1) : data[i] # Quote

IsJSONNumber(data) ==
    /\ Len(data) >= 1
    /\ \A i \in 1..Len(data) : IsDigit(data[i])
    /\ (Len(data) > 1 => data[1] # "0")

\* json.Unmarshal into a destination currently holding dest: the decoded
\* value on success; on an error the destination keeps its value.
JSONUnmarshal(data, dest) ==
    IF data = JSONNull THEN [err |-> "", val |-> dest]
    ELSE IF IsJSONString(data) THEN
        IF dest.kind = "string"
        THEN [err |-> "", val |-> StrValue(SubSeq(data, 2, Len(data) - 1))]
        ELSE [err |-> "json: cannot unmarshal string", val |-> dest]
    ELSE IF IsJSONNumber(data) THEN
        IF dest.kind = "int"
        THEN [err |-> "", val |-> IntValue(Atoi(data))]
        ELSE [err |-> "json: cannot unmarshal number", val |-> dest]
    ELSE [err |-> "json: syntax error", val |-> dest]

(***************************************************************************)
(* DynamoDB attribute values and items.                                    *)
(***************************************************************************)

AttrS(s) == [T |-> "S", S |-> s, B |-> <<>>, N |-> 0]

AttrB(b) == [T |-> "B", S |-> "", B |-> b, N |-> 0]

AttrN(n) == [T |-> "N", S |-> "", B |-> <<>>, N |-> n]

\* A nil item map: GetItemOutput.Item of a key that has no item.
NilItem == [a \in {} |-> AttrS("")]

\* The item the test double of the API keeps per key after a TTL-enabled
\* writer has put it (the item TestTTL expects: key, value and ttl).
ItemWithTTL ==
    [k |-> AttrS("a"), v |-> AttrB(<<Quote, "x", Quote>>), ttl |-> AttrN(TTLSeconds)]

\* An item that holds the key attribute only.
ItemWithoutValue == [k |-> AttrS("a")]

\* An item whose value attribute is not the output of the codec.
ItemUndecodable == [k |-> AttrS("a"), v |-> AttrB(<<"{">>)]

\* The tables a client may be constructed against: an empty one, and tables
\* that already hold an item under key "a".
InitialTables == {{}, {ItemWithTTL}, {ItemWithoutValue}, {ItemUndecodable}}

(***************************************************************************)
(* The DynamoDB API handle (dynamodbiface.DynamoDBAPI) and its responses.  *)
(***************************************************************************)

\* The response of a call that succeeds.
OK == [err |-> "", applied |-> TRUE]

\* The errors a call of the API may return.
StorageErrors == {"RequestError", "ProvisionedThroughputExceededException"}

\* The responses of a write (PutItem, DeleteItem) that fails: the error, and
\* whether the table took the write all the same (a response lost on the
\* way back).
WriteFailures == [err : StorageErrors, applied : BOOLEAN]

\* The responses of a read (GetItem, DescribeTable) that fails.
ReadFailures == [err : StorageErrors, applied : {FALSE}]

\* DescribeTableWithContext of the test double: the table "missing" does not
\* exist, every other table does.
DescribeTableWithContext(tableName) ==
    IF tableName = "missing"
    THEN [err |-> "TableNotFoundException", applied |-> FALSE]
    ELSE OK

ItemsOf(tbl, key) == {i \in tbl : i[keyAttrName].S = key}

\* PutItem keeping the attributes of the old item that the new one lacks
\* (an update of the item in place of a replacement).
PutItemMerging(tbl, item) ==
    LET old == ItemsOf(tbl, item[keyAttrName].S)
    IN  (tbl \ old) \cup
        (IF old = {} THEN {item}
         ELSE {[a \in DOMAIN o \cup DOMAIN item |->
                   IF a \in DOMAIN item THEN item[a] ELSE o[a]] : o \in old})

\* PutItem: the item replaces whatever the table holds under its key.
PutItem(tbl, item) ==
    (tbl \ ItemsOf(tbl, item[keyAttrName].S)) \cup {item}

\* GetItem: the item under the key, or a nil item.
GetItem(tbl, key) ==
    IF ItemsOf(tbl, key) = {} THEN NilItem
    ELSE CHOOSE i \in ItemsOf(tbl, key) : TRUE

\* DeleteItem: no item is left under the key; a key without an item is no
\* error.
DeleteItem(tbl, key) == tbl \ ItemsOf(tbl, key)

(***************************************************************************)
(* util.CheckKey, util.CheckKeyAndValue and the codec of the client.       *)
(***************************************************************************)

ErrEmptyKey == "The passed key is an empty string, which is invalid"

ErrNilValue == "The passed value is nil, which is not allowed"

ValidationErrors == {ErrEmptyKey, ErrNilValue}

CheckKey(k) == IF k = "" THEN ErrEmptyKey ELSE ""

\* CheckKeyAndValue without the check of the value.
CheckKeyAndValueKeyOnly(k, v) == CheckKey(k)

CheckKeyAndValue(k, v) ==
    IF CheckKey(k) # "" THEN CheckKey(k)
    ELSE IF v = NilValue THEN ErrNilValue
    ELSE ""

\* Options.Codec: encoding.JSON, or nil when the caller leaves it out.
Codecs == {"nil", "JSON"}

\* c.codec.Marshal: a method call on a nil interface value panics.
Marshal(codec, v) ==
    IF codec = "nil" THEN [panic |-> TRUE, err |-> "", data |-> <<>>]
    ELSE [panic |-> FALSE, err |-> JSONMarshal(v).err, data |-> JSONMarshal(v).data]

\* c.codec.Unmarshal, likewise.
Unmarshal(codec, data, dest) ==
    IF codec = "nil" THEN [panic |-> TRUE, err |-> "", val |-> dest]
    ELSE [panic |-> FALSE, err |-> JSONUnmarshal(data, dest).err,
          val |-> JSONUnmarshal(data, dest).val]

(***************************************************************************)
(* Options and Client.                                                     *)
(***************************************************************************)

TableNames == {"", "gokv", "missing"}

\* The options a caller hands to NewClient.  TTL is the field TestTTL sets
\* (zero, or ten seconds); the Client keeps the service, the table name and
\* the codec, and nothing of the TTL.
OptionsSet ==
    [Service : {"nil", "mock"}, TableName : TableNames, Codec : Codecs,
     TTL : {0, TTLSeconds}]

DefaultOptions == [Service |-> "nil", TableName |-> "", Codec |-> "JSON", TTL |-> 0]

\* Client{}: the zero value NewClient starts from.
ZeroClient == [svc |-> "nil", tableName |-> "", codec |-> "nil"]

(***************************************************************************)
(* The operations, as functions of the client, the table, the arguments    *)
(* and the response of the API call the operation may issue.  A result     *)
(* holds how the operation ended (a return or a panic), what it returned,  *)
(* the API calls it issued, the item it put and the table it left.         *)
(***************************************************************************)

Result(outcome, err, found, out, calls, item, tbl) ==
    [outcome |-> outcome, err |-> err, found |-> found, out |-> out,
     calls |-> calls, item |-> item, table |-> tbl]

\* SetItem with the value stored under another attribute name.
SetItemOtherAttr(k, data) ==
    [a \in {keyAttrName, "val"} |->
        IF a = keyAttrName THEN AttrS(k) ELSE AttrB(data)]

\* The item Set builds: the key attribute and the value attribute.
SetItem(k, data) ==
    [a \in {keyAttrName, valAttrName} |->
        IF a = keyAttrName THEN AttrS(k) ELSE AttrB(data)]

\* SetPut calling PutItem a second time when the first call fails.
SetPutRetry(tbl, item, resp) ==
    Result("return", resp.err, FALSE, NilValue,
           IF resp.err # "" THEN <<"PutItem", "PutItem">> ELSE <<"PutItem">>,
           item, IF resp.applied THEN PutItem(tbl, item) ELSE tbl)

\* The one PutItem call of Set: Set returns the error of the call.
SetPut(tbl, item, resp) ==
    Result("return", resp.err, FALSE, NilValue, <<"PutItem">>, item,
           IF resp.applied THEN PutItem(tbl, item) ELSE tbl)

SetResult(c, tbl, k, v, resp) ==
    IF CheckKeyAndValue(k, v) # ""
    THEN Result("return", CheckKeyAndValue(k, v), FALSE, NilValue, <<>>, NilItem, tbl)
    ELSE IF Marshal(c.codec, v).panic
    THEN Result("panic", "", FALSE, NilValue, <<>>, NilItem, tbl)
    ELSE IF Marshal(c.codec, v).err # ""
    THEN Result("return", Marshal(c.codec, v).err, FALSE, NilValue, <<>>, NilItem, tbl)
    ELSE SetPut(tbl, SetItem(k, Marshal(c.codec, v).data), resp)

\* GetMissing returning an error for a key without an item.
GetMissingAsError(dest, tbl) ==
    Result("return", "ResourceNotFoundException", FALSE, dest, <<"GetItem">>, NilItem, tbl)

\* What Get returns when GetItem returns no item: (false, nil).
GetMissing(dest, tbl) ==
    Result("return", "", FALSE, dest, <<"GetItem">>, NilItem, tbl)

\* What Get returns when the item has no value attribute: (false, nil).
GetNoValue(dest, tbl) ==
    Result("return", "", FALSE, dest, <<"GetItem">>, NilItem, tbl)

GetResult(c, tbl, k, destKind, resp) ==
    LET dest == ZeroValue(destKind)
        item == GetItem(tbl, k)
    IN  IF CheckKeyAndValue(k, dest) # ""
        THEN Result("return", CheckKeyAndValue(k, dest), FALSE, dest, <<>>, NilItem, tbl)
        ELSE IF resp.err # ""
        THEN Result("return", resp.err, FALSE, dest, <<"GetItem">>, NilItem, tbl)
        ELSE IF item = NilItem
        THEN GetMissing(dest, tbl)
        ELSE IF valAttrName \notin DOMAIN item
        THEN GetNoValue(dest, tbl)
        ELSE IF Unmarshal(c.codec, item[valAttrName].B, dest).panic
        THEN Result("panic", "", FALSE, dest, <<"GetItem">>, NilItem, tbl)
        ELSE Result("return", Unmarshal(c.codec, item[valAttrName].B, dest).err, TRUE,
                    Unmarshal(c.codec, item[valAttrName].B, dest).val,
                    <<"GetItem">>, NilItem, tbl)

\* DeleteResult with a delete that is conditional on the item existing.
DeleteResultConditional(c, tbl, k, resp) ==
    IF CheckKey(k) # ""
    THEN Result("return", CheckKey(k), FALSE, NilValue, <<>>, NilItem, tbl)
    ELSE IF resp.err = "" /\ ItemsOf(tbl, k) = {}
    THEN Result("return", "ConditionalCheckFailedException", FALSE, NilValue,
                <<"DeleteItem">>, NilItem, tbl)
    ELSE Result("return", resp.err, FALSE, NilValue, <<"DeleteItem">>, NilItem,
                IF resp.applied THEN DeleteItem(tbl, k) ELSE tbl)

DeleteResult(c, tbl, k, resp) ==
    IF CheckKey(k) # ""
    THEN Result("return", CheckKey(k), FALSE, NilValue, <<>>, NilItem, tbl)
    ELSE Result("return", resp.err, FALSE, NilValue, <<"DeleteItem">>, NilItem,
                IF resp.applied THEN DeleteItem(tbl, k) ELSE tbl)

CloseResult(c, tbl) ==
    Result("return", "", FALSE, NilValue, <<>>, NilItem, tbl)

ErrNoService == "no dynamodb service provided"

ErrNoTableName == "no options.TableName specified"

\* NewClientResult without the check of the table name.
NewClientNoTableNameCheck(o, resp) ==
    IF o.Service = "nil"
    THEN [client |-> ZeroClient, err |-> ErrNoService, calls |-> <<>>]
    ELSE IF resp.err # ""
    THEN [client |-> [svc |-> o.Service, tableName |-> o.TableName, codec |-> "nil"],
          err |-> resp.err, calls |-> <<"DescribeTableWithContext">>]
    ELSE [client |-> [svc |-> o.Service, tableName |-> o.TableName, codec |-> o.Codec],
          err |-> "", calls |-> <<"DescribeTableWithContext">>]

\* NewClient: the client it returns, its error and the API calls it issued.
NewClientResult(o, resp) ==
    IF o.Service = "nil"
    THEN [client |-> ZeroClient, err |-> ErrNoService, calls |-> <<>>]
    ELSE IF o.TableName = ""
    THEN [client |-> [ZeroClient EXCEPT !.svc = o.Service],
          err |-> ErrNoTableName, calls |-> <<>>]
    ELSE IF resp.err # ""
    THEN [client |-> [svc |-> o.Service, tableName |-> o.TableName, codec |-> "nil"],
          err |-> resp.err, calls |-> <<"DescribeTableWithContext">>]
    ELSE [client |-> [svc |-> o.Service, tableName |-> o.TableName, codec |-> o.Codec],
          err |-> "", calls |-> <<"DescribeTableWithContext">>]

(***************************************************************************)
(* State.                                                                  *)
(***************************************************************************)

VARIABLES
    options,    \* the Options handed to NewClient
    client,     \* the Client NewClient returned
    usable,     \* NewClient returned no error: the client may be used
    table,      \* the items of the table behind the API handle
    last,       \* the latest operation: its arguments and its result
    written,    \* per key, the value of the latest Set that succeeded, while
                \* no later Set or Delete reached the table (NilValue: none)
    prior       \* per key, whether a later Set or Delete has replaced a value
                \* Set stored, by another value or by none

vars == <<options, client, usable, table, last, written, prior>>

UserKeys == Keys \ {""}

\* The record of an operation with result r, issued with these arguments
\* against an API that answers resp.
Operation(op, k, v, dest, resp, r) ==
    [op |-> op, k |-> k, v |-> v, dest |-> dest,
     resp |-> IF r.calls = <<>> THEN "" ELSE resp.err,
     repeat |-> (last.op = op /\ last.k = k),
     before |-> table,
     outcome |-> r.outcome, err |-> r.err, found |-> r.found, out |-> r.out,
     calls |-> r.calls, item |-> r.item]

NoOperation ==
    [op |-> "none", k |-> "", v |-> NilValue, dest |-> "nil", resp |-> "",
     repeat |-> FALSE, before |-> {},
     outcome |-> "return", err |-> "", found |-> FALSE, out |-> NilValue,
     calls |-> <<>>, item |-> NilItem]

Init ==
    /\ options = DefaultOptions
    /\ client = ZeroClient
    /\ usable = FALSE
    /\ table \in InitialTables
    /\ last = NoOperation
    /\ written = [k \in UserKeys |-> NilValue]
    /\ prior = [k \in UserKeys |-> FALSE]

(***************************************************************************)
(* Operations.                                                             *)
(***************************************************************************)

NewClient(o, resp) ==
    /\ ~usable
    /\ LET r == NewClientResult(o, resp)
       IN  /\ options' = o
           /\ client' = r.client
           /\ usable' = (r.err = "")
           /\ last' = Operation("NewClient", "", NilValue, "nil", resp,
                                Result("return", r.err, FALSE, NilValue, r.calls,
                                       NilItem, table))
    /\ UNCHANGED <<table, written, prior>>

\* The history of key k after a Set or a Delete of k that ended with r and,
\* when it succeeded, left value v (NilValue after a Delete) under k.
Remember(k, v, r) ==
    IF r.calls = <<>> THEN UNCHANGED <<written, prior>>
    ELSE IF r.err # "" THEN
        /\ written' = [written EXCEPT ![k] = NilValue]
        /\ prior' = [prior EXCEPT ![k] = FALSE]
    ELSE
        /\ written' = [written EXCEPT ![k] = v]
        /\ prior' = [prior EXCEPT ![k] =
                        IF written[k] # NilValue /\ written[k] # v THEN TRUE ELSE @]

Set(k, v, resp) ==
    /\ usable
    /\ LET r == SetResult(client, table, k, v, resp)
       IN  /\ table' = r.table
           /\ last' = Operation("Set", k, v, "nil", resp, r)
           /\ Remember(k, v, r)
    /\ UNCHANGED <<options, client, usable>>

Get(k, destKind, resp) ==
    /\ usable
    /\ LET r == GetResult(client, table, k, destKind, resp)
       IN  /\ table' = r.table
           /\ last' = Operation("Get", k, NilValue, destKind, resp, r)
    /\ UNCHANGED <<options, client, usable, written, prior>>

Delete(k, resp) ==
    /\ usable
    /\ LET r == DeleteResult(client, table, k, resp)
       IN  /\ table' = r.table
           /\ last' = Operation("Delete", k, NilValue, "nil", resp, r)
           /\ Remember(k, NilValue, r)
    /\ UNCHANGED <<options, client, usable>>

Close ==
    /\ usable
    /\ LET r == CloseResult(client, table)
       IN  /\ table' = r.table
           /\ last' = Operation("Close", "", NilValue, "nil", OK, r)
    /\ UNCHANGED <<options, client, usable, written, prior>>

\* The operations against an API whose calls succeed (but for the describe
\* call on a table that does not exist).
NewClientOp == \E o \in OptionsSet : NewClient(o, DescribeTableWithContext(o.TableName))

SetOp == \E k \in Keys, v \in Values : Set(k, v, OK)

GetOp == \E k \in Keys, d \in DestKinds : Get(k, d, OK)

DeleteOp == \E k \in Keys : Delete(k, OK)

\* The operations against an API whose call fails.
NewClientFail == \E o \in OptionsSet, f \in ReadFailures : NewClient(o, f)

SetFail == \E k \in Keys, v \in Values, f \in WriteFailures : Set(k, v, f)

GetFail == \E k \in Keys, d \in DestKinds, f \in ReadFailures : Get(k, d, f)

DeleteFail == \E k \in Keys, f \in WriteFailures : Delete(k, f)

Next == NewClientOp \/ SetOp \/ GetOp \/ DeleteOp \/ Close

NextFault ==
    \/ NewClientOp \/ SetOp \/ GetOp \/ DeleteOp \/ Close
    \/ NewClientFail \/ SetFail \/ GetFail \/ DeleteFail

\* The client against an API whose calls succeed.
Spec == Init /\ [][Next]_vars

\* The client against an API whose calls may fail.
SpecFault == Init /\ [][NextFault]_vars

(***************************************************************************)
(* Properties.                                                             *)
(***************************************************************************)

\* The latest operation was given a non-empty key and, for Set and Get, a
\* non-nil value or destination.
ValidArguments ==
    /\ last.k # ""
    /\ (last.op = "Set" => last.v # NilValue)
    /\ (last.op = "Get" => last.dest # "nil")

\* The item the table holds for key k after Set(k, v) through the JSON codec:
\* the key attribute and the value attribute, nothing else.
StoredItem(k, v) ==
    [a \in {"k", "v"} |-> IF a = "k" THEN AttrS(k) ELSE AttrB(JSONMarshal(v).data)]

\* C1: round trip. After a Set(k, v) that succeeded, and with no later Set
\* or Delete of k, a Get(k, dest) with dest a variable of v's type returns
\* found = true and no error, and leaves v in dest.
RoundTrip ==
    (/\ last.op = "Get"
     /\ ValidArguments
     /\ written[last.k] # NilValue
     /\ last.dest = written[last.k].kind)
    => (/\ last.outcome = "return"
        /\ last.found
        /\ last.err = ""
        /\ last.out = written[last.k])

RoundTripWitness ==
    /\ last.op = "Get"
    /\ ValidArguments
    /\ written[last.k] = IntValue(MaxInt)
    /\ last.dest = "int"
    /\ last.found
    /\ last.out = IntValue(MaxInt)

\* C2: overwrite. The table never holds two items under one key; after a
\* Set(k, v) that succeeded the item under k is exactly the key and the
\* encoded v, with no attribute of the item it replaced; and a Get after a
\* Set that replaced another value yields the later value.
OverwriteLaw ==
    /\ \A key \in Keys : Cardinality(ItemsOf(table, key)) <= 1
    /\ (last.op = "Set" /\ last.outcome = "return" /\ last.err = "")
       => ItemsOf(table, last.k) = {StoredItem(last.k, last.v)}
    /\ (/\ last.op = "Get"
        /\ ValidArguments
        /\ prior[last.k]
        /\ written[last.k] # NilValue
        /\ last.dest = written[last.k].kind)
       => (last.found /\ last.err = "" /\ last.out = written[last.k])

OverwriteWitness ==
    /\ last.op = "Get"
    /\ ValidArguments
    /\ prior[last.k]
    /\ written[last.k] = StrValue(<<"y", "z">>)
    /\ last.found
    /\ last.out = StrValue(<<"y", "z">>)
    /\ ItemsOf(table, last.k) = {StoredItem(last.k, written[last.k])}

\* C3: the item a Set puts carries a ttl attribute exactly when the client
\* was constructed with a TTL above zero.
TTLAttached ==
    (last.op = "Set" /\ last.calls # <<>>)
    => ((options.TTL > 0) <=> (ttlAttrName \in DOMAIN last.item))

\* C4: a client constructed from options without a codec has the JSON codec
\* of DefaultOptions, and no operation on it ends in a panic for want of a
\* codec.
DefaultCodec ==
    (usable /\ options.Codec = "nil")
    => (client.codec = DefaultOptions.Codec /\ last.outcome = "return")

ConfigurationErrors == {ErrNoService, ErrNoTableName}

\* C5: NewClient returns an error exactly when the service is nil, the
\* table name is empty or the describe call fails: a configuration error
\* and no API call in the first two cases; otherwise one describe call,
\* whose error it returns unchanged.
NewClientErrors ==
    (last.op = "NewClient")
    => (/\ (last.err # "") <=>
              (options.Service = "nil" \/ options.TableName = "" \/ last.resp # "")
        /\ (options.Service = "nil" \/ options.TableName = "")
              => (last.err \in ConfigurationErrors /\ last.calls = <<>>)
        /\ (options.Service # "nil" /\ options.TableName # "")
              => (/\ last.calls = <<"DescribeTableWithContext">>
                  /\ last.err = last.resp)
        /\ usable <=> (last.err = ""))

NewClientErrorsWitness ==
    /\ last.op = "NewClient"
    /\ options.Service # "nil"
    /\ options.TableName = "missing"
    /\ last.err = "TableNotFoundException"
    /\ last.calls = <<"DescribeTableWithContext">>

\* C6: a Set, Get or Delete with an empty key, a Set of a nil value and a
\* Get into a nil destination return a validation error, issue no API call
\* and leave the table as it was.
ValidationFirst ==
    (last.op \in {"Set", "Get", "Delete"} /\ ~ValidArguments)
    => (/\ last.outcome = "return"
        /\ last.err \in ValidationErrors
        /\ ~last.found
        /\ last.calls = <<>>
        /\ table = last.before)

ValidationFirstWitness ==
    /\ last.op = "Set"
    /\ last.k = "b"
    /\ last.v = NilValue
    /\ last.err = ErrNilValue
    /\ client.codec = "JSON"
    /\ table # {}

\* C7: a Get with valid arguments of a key that has no item returns
\* (false, nil) and leaves the table as it was.
GetAbsent ==
    (last.op = "Get" /\ ValidArguments /\ ItemsOf(last.before, last.k) = {})
    => (/\ last.outcome = "return"
        /\ ~last.found
        /\ last.err = ""
        /\ table = last.before)

\* Get of a key that was set and then deleted.
GetAbsentWitness ==
    /\ last.op = "Get"
    /\ ValidArguments
    /\ ItemsOf(last.before, last.k) = {}
    /\ prior[last.k]
    /\ written[last.k] = NilValue
    /\ ~last.found
    /\ last.err = ""

\* C8: a Delete of a non-empty key returns nil, whether or not the key has
\* an item and also right after another Delete of the key; afterwards the
\* key has no item and every other key has the items it had.
DeleteIdempotent ==
    (last.op = "Delete" /\ last.k # "")
    => (/\ last.outcome = "return"
        /\ last.err = ""
        /\ ItemsOf(table, last.k) = {}
        /\ \A key \in Keys \ {last.k} : ItemsOf(table, key) = ItemsOf(last.before, key))

\* The second of two Deletes in a row, of a key that has no item, with an
\* item under another key.
DeleteIdempotentWitness ==
    /\ last.op = "Delete"
    /\ last.k # ""
    /\ last.repeat
    /\ ItemsOf(last.before, last.k) = {}
    /\ last.err = ""
    /\ table # {}

\* C9: a Get with valid arguments of a key that has an item returns
\* found = true when the item has a value attribute, with no error if the
\* codec decodes the value and with the decode error if it does not, and
\* returns (false, nil) when the item has no value attribute.
FoundReflectsRow ==
    (last.op = "Get" /\ ValidArguments /\ ItemsOf(last.before, last.k) # {})
    => LET item == GetItem(last.before, last.k)
           decoded == JSONUnmarshal(item[valAttrName].B, ZeroValue(last.dest))
       IN  IF valAttrName \in DOMAIN item
           THEN /\ last.outcome = "return"
                /\ last.found
                /\ last.err = decoded.err
                /\ last.out = decoded.val
           ELSE /\ last.outcome = "return"
                /\ ~last.found
                /\ last.err = ""

\* C10 as stated: every Set, Get and Delete issues exactly one API call.
ExactlyOneCall ==
    (last.op \in {"Set", "Get", "Delete"}) => (Len(last.calls) = 1)

\* The API call of the latest operation.
CallOf(op) ==
    IF op = "Set" THEN <<"PutItem">>
    ELSE IF op = "Get" THEN <<"GetItem">>
    ELSE <<"DeleteItem">>

\* The value of the latest Set has been encoded.
Encoded == client.codec # "nil" /\ JSONMarshal(last.v).err = ""

\* C10, amended: an operation issues at most one API call and never a
\* second one: Set, Get and Delete issue their one call when validation
\* passes and, for Set, the value has been encoded, and none otherwise;
\* Close issues none.  When the call fails the operation returns its error
\* unchanged, Get with found = false, and the table is as the API left it.
AtMostOneCall ==
    /\ Len(last.calls) <= 1
    /\ (last.op \in {"Set", "Get", "Delete"})
       => IF ValidArguments /\ (last.op = "Set" => Encoded)
          THEN last.calls = CallOf(last.op)
          ELSE last.calls = <<>>
    /\ (last.op = "Close") => (last.calls = <<>> /\ last.err = "")
    /\ (last.op \in {"Set", "Get", "Delete"} /\ last.resp # "")
       => (/\ last.outcome = "return"
           /\ last.err = last.resp
           /\ ~last.found
           /\ CASE last.op = "Set" ->
                     table \in {last.before, PutItem(last.before, last.item)}
                [] last.op = "Delete" ->
                     table \in {last.before, DeleteItem(last.before, last.k)}
                [] OTHER -> table = last.before)

\* A Set whose PutItem call failed and left the table alone.
AtMostOneCallWitness ==
    /\ last.op = "Set"
    /\ last.resp \in StorageErrors
    /\ last.err = last.resp
    /\ last.calls = <<"PutItem">>
    /\ table = last.before
    /\ ItemsOf(table, last.k) # {}

====
